---- MODULE Spec2Model ----
(***************************************************************************)
(* State-machine model of twvid's src/main.py: the message handler         *)
(* handle_message with extract_tweet_ids, scrape_media, reply_media,       *)
(* reply_photos, reply_gifs, reply_videos and the shared stats record in   *)
(* context.bot_data.                                                       *)
(*                                                                         *)
(* A unit is one run of handle_message (one worker thread of the           *)
(* dispatcher, run_async=True).  Every network request and every call of   *)
(* the messaging sink is one step whose outcome (a response or a raised    *)
(* exception) is chosen by the environment.  Exceptions are values: the    *)
(* step that raises moves the unit to the handler the Python code gives    *)
(* it (an except clause, or out of handle_message).                        *)
(*                                                                         *)
(* Texts.  A tweet body is represented by its length n; its prefix         *)
(* body[:k] is the length Min(n, k).  Reply texts are tuples of their      *)
(* parts in the order the f-strings concatenate them.                      *)
(***************************************************************************)
EXTENDS Integers, Sequences, FiniteSets, TLC

(***************************************************************************)
(* Bounds of the model.                                                    *)
(***************************************************************************)
NUnits == 2
MaxIds == 2
MaxTokens == 2
MaxMedia == 2
MaxMsgLen == 1
MaxResets == 1

(***************************************************************************)
(* Program constants.                                                      *)
(***************************************************************************)
MAX_FILESIZE_DOWNLOAD == 20000000
MAX_FILESIZE_UPLOAD == 50000000
CAPTION_LIMIT == 1024

Units == 1..NUnits
TweetIds == 1..MaxIds

Min(a, b) == IF a <= b THEN a ELSE b

RECURSIVE SeqsUpTo(_, _)
SeqsUpTo(S, n) ==
    IF n = 0 THEN {<<>>}
    ELSE LET R == SeqsUpTo(S, n - 1)
         IN  R \cup {Append(s, x) : s \in {r \in R : Len(r) = n - 1}, x \in S}

Range(s) == {s[k] : k \in 1..Len(s)}

(***************************************************************************)
(* Exceptions, by class name.                                              *)
(***************************************************************************)
SinkErrors == {"BadRequest", "Unauthorized", "TimedOut"}
SinkOutcomes == {"ok"} \cup SinkErrors

(***************************************************************************)
(* extract_tweet_ids (lines 30-47).  A message text is a sequence of       *)
(* tokens: a status link carrying a tweet id, a t.co short link, or other  *)
(* text.  Resolving a short link fails or yields a URL, itself a token.    *)
(***************************************************************************)
StatusLink(n) == [kind |-> "status", n |-> n]
ShortLink == [kind |-> "tco", n |-> 0]
OtherText == [kind |-> "other", n |-> 0]
Tokens == {StatusLink(n) : n \in TweetIds} \cup {ShortLink, OtherText}
\* Filters.text: the message has a text
Texts == SeqsUpTo(Tokens, MaxTokens) \ {<<>>}
ResolvedUrls == {StatusLink(n) : n \in TweetIds} \cup {OtherText}
Resolutions == {<<>>} \cup {<<r>> : r \in ResolvedUrls}

\* re.findall(r"t\.co\/[a-zA-Z0-9]+", text)
ShortLinksOf(text) == SelectSeq(text, LAMBDA t : t.kind = "tco")

\* re.findall of the status pattern: the ids of the status links, in order
RECURSIVE FindIds(_)
FindIds(text) ==
    IF text = <<>> THEN <<>>
    ELSE IF Head(text).kind = "status"
         THEN <<Head(text).n>> \o FindIds(Tail(text))
         ELSE FindIds(Tail(text))

\* list(dict.fromkeys(ids)): first occurrence wins, order kept
RECURSIVE Dedup(_)
Dedup(s) ==
    IF s = <<>> THEN <<>>
    ELSE LET d == Dedup(SubSeq(s, 1, Len(s) - 1))
             x == s[Len(s)]
         IN  IF x \in Range(d) THEN d ELSE Append(d, x)

\* res[k] is the outcome of resolving the k-th short link: <<>> when the
\* request raised, <<url>> when it returned.
RECURSIVE Unshortened(_)
Unshortened(res) ==
    IF res = <<>> THEN <<>> ELSE Head(res) \o Unshortened(Tail(res))

\* (variant: line 46 is left out)
extract_tweet_ids_NoDedup(text, res) == FindIds(text \o Unshortened(res))

extract_tweet_ids(text, res) == Dedup(FindIds(text \o Unshortened(res)))

(***************************************************************************)
(* scrape_media (lines 49-58).  A response of the API.                     *)
(***************************************************************************)
MediaTypes == {"image", "gif", "video", "other"}
Queries == {"format=jpg&name=small"}
Url(p, q) == [path |-> p, query |-> q]

\* media_extended lists: the k-th item has the URL path k; image URLs carry
\* a query string.
ItemsOfType(k) ==
    {[type |-> "image", url |-> Url(k, q)] : q \in Queries}
    \cup {[type |-> t, url |-> Url(k, "")] : t \in MediaTypes \ {"image"}}

RECURSIVE MediaLists(_)
MediaLists(n) ==
    IF n = 0 THEN {<<>>}
    ELSE LET R == MediaLists(n - 1)
         IN  R \cup {Append(s, x) : s \in {r \in R : Len(r) = n - 1},
                                    x \in ItemsOfType(n)}

TextLens == {CAPTION_LIMIT, CAPTION_LIMIT + 1}

HtmlTokens == {"x", "&amp;", "&lt;"}
RawMessages == SeqsUpTo(HtmlTokens, MaxMsgLen) \ {<<>>}

\* (variant: the message is not decoded)
Unescape_Raw(m) == m

\* html.unescape, token by token
UnescapeToken(t) ==
    IF t = "&amp;" THEN "&" ELSE IF t = "&lt;" THEN "<" ELSE t
Unescape(m) == [k \in 1..Len(m) |-> UnescapeToken(m[k])]

\* has_media / has_text: whether the JSON object has the key; og is <<>> or
\* <<M>>, the content of the og:description meta tag matched by the regex.
Responses ==
    { [net |-> "ConnectionError", ok |-> FALSE, json |-> FALSE,
       has_media |-> FALSE, media |-> <<>>, has_text |-> FALSE, text |-> 0,
       og |-> <<>>] }
    \cup
    { [net |-> "ok", ok |-> ok, json |-> FALSE,
       has_media |-> FALSE, media |-> <<>>, has_text |-> FALSE, text |-> 0,
       og |-> og] : ok \in BOOLEAN, og \in {<<>>} \cup {<<m>> : m \in RawMessages} }
    \cup
    { [net |-> "ok", ok |-> TRUE, json |-> TRUE,
       has_media |-> TRUE, media |-> m, has_text |-> TRUE, text |-> n,
       og |-> <<>>] : m \in MediaLists(MaxMedia), n \in TextLens }
    \cup
    { [net |-> "ok", ok |-> TRUE, json |-> TRUE,
       has_media |-> hm, media |-> <<>>, has_text |-> FALSE, text |-> 0,
       og |-> <<>>] : hm \in BOOLEAN }

\* before any request is answered
NoResponse ==
    [net |-> "none", ok |-> FALSE, json |-> FALSE,
     has_media |-> FALSE, media |-> <<>>, has_text |-> FALSE, text |-> 0,
     og |-> <<>>]

Returned(media, text) ==
    [exc |-> "none", msg |-> <<>>, media |-> media, text |-> text]
Raised(kind, msg) ==
    [exc |-> kind, msg |-> msg, media |-> <<>>, text |-> 0]

scrape_media(r) ==
    IF r.net # "ok" THEN Raised(r.net, <<>>)                       \* line 50
    ELSE IF ~r.ok THEN Raised("HTTPError", <<>>)                   \* line 51
    ELSE IF r.json
         THEN IF ~r.has_media THEN Raised("KeyError", <<>>)        \* line 54
              ELSE Returned(r.media, IF r.has_text THEN r.text ELSE 0)
    ELSE IF r.og # <<>>                                            \* line 56
         THEN Raised("APIException",
                     <<"API returned error: ">> \o Unescape(r.og[1]))
    ELSE Raised("JSONDecodeError", <<>>)                           \* line 58

(***************************************************************************)
(* reply_media (lines 60-71): the buckets and the order of dispatch.       *)
(***************************************************************************)
Photos(media) == SelectSeq(media, LAMBDA m : m.type = "image")     \* line 62
\* (variant: a video counts as an animation as well)
Gifs_Animated(media) ==
    SelectSeq(media, LAMBDA m : m.type \in {"gif", "video"})

Gifs(media) == SelectSeq(media, LAMBDA m : m.type = "gif")         \* line 63
Videos(media) == SelectSeq(media, LAMBDA m : m.type = "video")     \* line 64

\* (variant: the videos are dispatched whenever there are any)
AfterPhotos_VideosFirst(gifs, videos) ==
    IF videos # <<>> THEN "videos"
    ELSE IF gifs # <<>> THEN "gifs"
    ELSE "return"

\* lines 67-70: what runs after the photos: "gifs", "videos" or "return"
AfterPhotos(gifs, videos) ==
    IF gifs # <<>> THEN "gifs"
    ELSE IF videos # <<>> THEN "videos"
    ELSE "return"

\* (variant: the videos are left out of the result)
ReplyMediaResult_NoVideos(photos, gifs, videos) ==
    photos # <<>> \/ gifs # <<>>

\* line 71
ReplyMediaResult(photos, gifs, videos) ==
    photos # <<>> \/ gifs # <<>> \/ videos # <<>>

\* (variant: the text is not sliced)
Caption_Whole(text) == text

\* tweet_text[:1024]
Caption(text) == Min(text, CAPTION_LIMIT)

\* urlsplit(url)._replace(query='format=jpg&name=orig').geturl() (line 83)
OrigQuality(url) == [url EXCEPT !.query = "format=jpg&name=orig"]

\* one InputMediaPhoto (lines 86, 89): i counts from 1 here, from 0 there
InputMediaPhoto(url, text, i) ==
    [media |-> url, caption |-> IF i = 1 THEN <<Caption(text)>> ELSE <<>>]

(***************************************************************************)
(* reply_videos (lines 103-139).                                           *)
(***************************************************************************)
\* (variant: strict comparisons)
VideoTier_Strict(size) ==
    IF size < MAX_FILESIZE_DOWNLOAD THEN "relay"
    ELSE IF size < MAX_FILESIZE_UPLOAD THEN "upload"
    ELSE "link"

\* lines 110, 113, 130
VideoTier(size) ==
    IF size <= MAX_FILESIZE_DOWNLOAD THEN "relay"
    ELSE IF size <= MAX_FILESIZE_UPLOAD THEN "upload"
    ELSE "link"

\* the except clause of line 134
VideoCaught == {"HTTPError", "KeyError", "BadRequest", "ConnectionError"}

VideoSizes == {MAX_FILESIZE_DOWNLOAD, MAX_FILESIZE_DOWNLOAD + 1,
               MAX_FILESIZE_UPLOAD, MAX_FILESIZE_UPLOAD + 1}

\* What the size probe of lines 108-110 yields: the request raises
\* (ConnectionError), the status is an error (HTTPError), the header is
\* missing (KeyError) or not a number (ValueError), or the size is read.
ProbeErrors == {"ConnectionError", "HTTPError", "KeyError", "ValueError"}

Probes ==
    {[exc |-> e, size |-> 0] : e \in ProbeErrors}
    \cup {[exc |-> "none", size |-> n] : n \in VideoSizes}

\* iter_content (line 123) may raise while the body is read
StreamErrors == {"ConnectionError", "ChunkedEncodingError"}
PhotoProbeOutcomes == {"ok", "HTTPError", "ConnectionError"}

(***************************************************************************)
(* handle_message (lines 219-258).                                         *)
(***************************************************************************)
\* (variant: found_tweets is not asked)
SummaryDue_NoTweets(found_tweets, found_media) == ~found_media

\* line 256
SummaryDue(found_tweets, found_media) == found_tweets /\ ~found_media

(***************************************************************************)
(* The texts of the replies.                                               *)
(***************************************************************************)
NoLinkText == <<"No supported tweet link found">>                  \* 231
NoMediaText(id, text) ==                                           \* 248
    <<"Tweet ", id, " has no media\n\nTweet text:\n", Caption(text)>>
ApiErrorText(id, msg) ==                                           \* 251
    <<"Error occurred when scraping tweet ", id, "\n">> \o msg
ErrorText(id) == <<"Error handling tweet ", id>>                   \* 254
SummaryText == <<"No supported media found">>                      \* 258
NoticeText ==                                                      \* 116-119
    <<"Video is too large for direct download\nUsing upload method (this might take a bit longer)">>
TooLargeText(url, text) ==                                         \* 132
    <<"Video is too large for Telegram upload. Direct video link:\n", url,
      "\n\nTweet text:\n", Caption(text)>>
FallbackText(url, text) ==                                         \* 137
    <<"Error occurred when trying to send video. Direct link:\n", url,
      "\n\nTweet text:\n", Caption(text)>>

(***************************************************************************)
(* The calls a unit makes: requests to the network and calls of the sink   *)
(* that returned.  what names the call site of a text reply.               *)
(***************************************************************************)
Call(op, what, arg) == [op |-> op, what |-> what, arg |-> arg]
MediaOps == {"media_group", "animation", "video_url", "video_file"}

(***************************************************************************)
(* State.                                                                  *)
(*   th[u]     the frame of unit u: its position pc and its locals; and,   *)
(*             for the record, text and links (what extract_tweet_ids read *)
(*             and what its requests answered, kept until its result is    *)
(*             first used), calls (the calls made for the current id,   *)
(*             or before or after the loop over the ids),                  *)
(*             response (what the API answered for it), and over the whole *)
(*             message had_media (some post had media), delivered (some    *)
(*             media was sent) and added (what the unit added to           *)
(*             media_downloaded)                                           *)
(*   dicts     the stats dict objects ever made, by object number          *)
(*   bot_data  the object bot_data['stats'] names; 0 when the key is absent*)
(*   resets    how many /resetstats commands ran                           *)
(*   poll      the polling loop of the updater: its position and the error *)
(*             its last failed request raised                              *)
(***************************************************************************)
VARIABLES th, dicts, bot_data, resets, poll

vars == <<th, dicts, bot_data, resets, poll>>

NewStats == [messages_handled |-> 0, media_downloaded |-> 0]

InitFrame ==
    [pc |-> "start", text |-> <<>>, links |-> <<>>,
     tweet_ids |-> <<>>, idx |-> 0, response |-> NoResponse,
     media |-> <<>>, tweet_text |-> 0,
     found_media |-> FALSE, found_tweets |-> FALSE,
     site |-> "none", i |-> 0, photo_group |-> <<>>,
     video_size |-> 0, notice |-> 0, tf |-> "closed",
     exc |-> "none", msg |-> <<>>, ret |-> "none",
     ref |-> 0, tmp |-> 0,
     calls |-> <<>>,
     had_media |-> FALSE, delivered |-> FALSE, added |-> 0]

Init ==
    /\ th = [u \in Units |-> InitFrame]
    /\ dicts = <<>>
    /\ bot_data = 0
    /\ resets = 0
    /\ poll = [pc |-> "polling", exc |-> "none"]

Set(u, f) == th' = [th EXCEPT ![u] = f]
Logged(f, c) == [f EXCEPT !.calls = Append(@, c)]
Shared == <<dicts, bot_data, resets, poll>>

(***************************************************************************)
(* The stats record (lines 222-225, 92, 101, 139).                         *)
(***************************************************************************)
\* line 222: if not 'stats' in context.bot_data
StatsCheck(u) ==
    /\ th[u].pc = "start"
    /\ Set(u, [th[u] EXCEPT !.pc = IF bot_data = 0 THEN "stats_init"
                                                   ELSE "count_read"])
    /\ UNCHANGED Shared

\* line 223
StatsInit(u) ==
    /\ th[u].pc = "stats_init"
    /\ dicts' = Append(dicts, NewStats)
    /\ bot_data' = Len(dicts) + 1
    /\ Set(u, [th[u] EXCEPT !.pc = "count_read"])
    /\ UNCHANGED <<resets, poll>>

\* line 225, the load of stats['messages_handled']
CountRead(u) ==
    /\ th[u].pc = "count_read"
    /\ Set(u, [th[u] EXCEPT !.pc = "count_write", !.ref = bot_data,
                            !.tmp = dicts[bot_data].messages_handled])
    /\ UNCHANGED Shared

\* line 225, the store
CountWrite(u) ==
    /\ th[u].pc = "count_write"
    /\ dicts' = [dicts EXCEPT ![th[u].ref].messages_handled = th[u].tmp + 1]
    /\ Set(u, [th[u] EXCEPT !.pc = "extract", !.ref = 0, !.tmp = 0])
    /\ UNCHANGED <<bot_data, resets, poll>>

(***************************************************************************)
(* Exceptions inside handle_message.                                       *)
(***************************************************************************)
\* The locals of reply_photos, reply_gifs and reply_videos are gone once
\* control leaves them; leaving the with block of line 120 closes tf.
Unwound(f) ==
    [f EXCEPT !.site = "none", !.i = 0, !.photo_group = <<>>,
              !.video_size = 0, !.notice = 0, !.tf = "closed",
              !.ref = 0, !.tmp = 0]

\* (variant: no except clause, the exception leaves handle_message)
Caught_Escapes(f, kind, msg) ==
    [InitFrame EXCEPT !.pc = "raised", !.exc = kind,
                      !.tweet_ids = f.tweet_ids, !.idx = f.idx,
                      !.added = f.added]

\* An exception raised inside the try of lines 237-248: the except clauses
\* of lines 249 (which binds the exception) and 252 (which does not).
Caught(f, kind, msg) ==
    IF kind = "APIException"
    THEN [Unwound(f) EXCEPT !.pc = "except_api", !.exc = kind, !.msg = msg]
    ELSE [Unwound(f) EXCEPT !.pc = "except_any"]

\* An exception raised outside the try: it leaves handle_message, whose
\* frame is gone; the ids and the place in them are kept for the record.
Propagated(f, kind) ==
    [InitFrame EXCEPT !.pc = "raised", !.exc = kind,
                      !.tweet_ids = f.tweet_ids, !.idx = f.idx,
                      !.added = f.added]

\* (variant: tf is not the subject of a with statement)
VideoExcept_NoWith(f, kind) ==
    IF kind \in VideoCaught
    THEN [f EXCEPT !.pc = "video_fallback", !.video_size = 0]
    ELSE Caught(f, kind, <<>>)

\* An exception raised inside the try of lines 107-133: the except clause
\* of line 134, or on to handle_message.  On its way out of the with block
\* of line 120 the exception closes tf.
VideoExcept(f, kind) ==
    IF kind \in VideoCaught
    THEN [f EXCEPT !.pc = "video_fallback", !.tf = "closed", !.video_size = 0]
    ELSE Caught(f, kind, <<>>)

(***************************************************************************)
(* handle_message: link extraction (lines 227-234).                        *)
(***************************************************************************)
Extract(u, texts) ==
    /\ th[u].pc = "extract"
    /\ \E text \in texts :
       \E res \in [1..Len(ShortLinksOf(text)) -> Resolutions] :
          LET ids == extract_tweet_ids(text, res)
              f == [th[u] EXCEPT !.text = text, !.links = res]
          IN  Set(u, IF ids = <<>>                    \* tweet_ids or None
                     THEN [f EXCEPT !.pc = "no_link"]
                     ELSE [f EXCEPT !.pc = "scrape", !.tweet_ids = ids,
                                    !.idx = 1])
    /\ UNCHANGED Shared

\* line 231
NoLinkReply(u, outcomes) ==
    /\ th[u].pc = "no_link"
    /\ \E o \in outcomes :
          Set(u, IF o = "ok"
                 THEN [Logged(th[u], Call("text", "no_link", NoLinkText))
                          EXCEPT !.pc = "done", !.text = <<>>, !.links = <<>>]
                 ELSE Propagated(th[u], o))
    /\ UNCHANGED Shared

(***************************************************************************)
(* handle_message: one tweet id (lines 235-248).                           *)
(***************************************************************************)
TweetId(f) == f.tweet_ids[f.idx]

\* lines 238-240: the scrape and the branch on its result
Scrape(u, responses) ==
    /\ th[u].pc = "scrape"
    /\ \E r \in responses :
          LET s == scrape_media(r)
              f == [Logged(th[u], Call("scrape", "", TweetId(th[u])))
                       EXCEPT !.response = r, !.text = <<>>, !.links = <<>>]
          IN  Set(u, IF s.exc # "none" THEN Caught(f, s.exc, s.msg)
                     ELSE [f EXCEPT !.media = s.media,
                                    !.tweet_text = s.text,
                                    !.found_tweets = TRUE,
                                    !.had_media = @ \/ s.media # <<>>,
                                    !.pc = IF s.media # <<>> THEN "reply_media"
                                                             ELSE "no_media"])
    /\ UNCHANGED Shared

\* line 248
NoMediaReply(u, outcomes) ==
    /\ th[u].pc = "no_media"
    /\ \E o \in outcomes :
          Set(u, IF o = "ok"
                 THEN [Logged(th[u], Call("text", "no_media",
                                 NoMediaText(TweetId(th[u]), th[u].tweet_text)))
                          EXCEPT !.pc = "next"]
                 ELSE Caught(th[u], o, <<>>))
    /\ UNCHANGED Shared

\* lines 249-251
ExceptApi(u, outcomes) ==
    /\ th[u].pc = "except_api"
    /\ \E o \in outcomes :
          Set(u, IF o = "ok"
                 THEN [Logged(th[u], Call("text", "api_error",
                                 ApiErrorText(TweetId(th[u]), th[u].msg)))
                          EXCEPT !.pc = "next", !.exc = "none", !.msg = <<>>]
                 ELSE Propagated(th[u], o))
    /\ UNCHANGED Shared

\* lines 252-254
ExceptAny(u, outcomes) ==
    /\ th[u].pc = "except_any"
    /\ \E o \in outcomes :
          Set(u, IF o = "ok"
                 THEN [Logged(th[u], Call("text", "error",
                                 ErrorText(TweetId(th[u]))))
                          EXCEPT !.pc = "next"]
                 ELSE Propagated(th[u], o))
    /\ UNCHANGED Shared

\* line 235: the loop moves to the next id, or ends.  What is kept of the
\* id left behind is not read again and starts afresh.
NextId(u) ==
    /\ th[u].pc = "next"
    /\ LET more == th[u].idx < Len(th[u].tweet_ids)
       IN  Set(u, [th[u] EXCEPT !.pc = IF more THEN "scrape" ELSE "summary",
                                !.idx = IF more THEN @ + 1 ELSE @,
                                !.response = NoResponse,
                                !.media = <<>>, !.tweet_text = 0,
                                !.ret = "none", !.calls = <<>>])
    /\ UNCHANGED Shared

\* lines 256-258
Summary(u, outcomes) ==
    /\ th[u].pc = "summary"
    /\ IF SummaryDue(th[u].found_tweets, th[u].found_media)
       THEN \E o \in outcomes :
               Set(u, IF o = "ok"
                      THEN [Logged(th[u], Call("text", "summary", SummaryText))
                               EXCEPT !.pc = "done"]
                      ELSE Propagated(th[u], o))
       ELSE Set(u, [th[u] EXCEPT !.pc = "done"])
    /\ UNCHANGED Shared

(***************************************************************************)
(* reply_media (lines 60-71).                                              *)
(***************************************************************************)
\* The return of line 71, reached when the buckets have run.
\* (variant: reply_media returns True whatever the buckets)
Return_True(f) ==
    [f EXCEPT !.pc = "media_return", !.site = "none", !.i = 0,
              !.photo_group = <<>>, !.ret = "true"]

Return(f) ==
    [f EXCEPT !.pc = "media_return", !.site = "none", !.i = 0,
              !.photo_group = <<>>,
              !.ret = IF ReplyMediaResult(Photos(f.media), Gifs(f.media),
                                          Videos(f.media))
                      THEN "true" ELSE "false"]

\* lines 67-70
Dispatch(f) ==
    LET where == AfterPhotos(Gifs(f.media), Videos(f.media))
        g == [f EXCEPT !.photo_group = <<>>]
    IN  IF where = "gifs"
        THEN [g EXCEPT !.pc = "gif_send", !.site = "gifs", !.i = 1]
        ELSE IF where = "videos"
        THEN [g EXCEPT !.pc = "video_probe", !.site = "videos", !.i = 1]
        ELSE Return(g)

\* lines 62-66
ReplyMedia(u) ==
    /\ th[u].pc = "reply_media"
    /\ Set(u, IF Photos(th[u].media) # <<>>
              THEN [th[u] EXCEPT !.pc = "photo_probe", !.site = "photos",
                                 !.i = 1]
              ELSE Dispatch(th[u]))
    /\ UNCHANGED Shared

\* lines 242-245
ReplyMediaReturn(u) ==
    /\ th[u].pc = "media_return"
    /\ Set(u, [th[u] EXCEPT !.pc = "next",
                            !.found_media = @ \/ th[u].ret = "true"])
    /\ UNCHANGED Shared

(***************************************************************************)
(* reply_photos (lines 73-92).                                             *)
(***************************************************************************)
\* lines 77-89: one photo, its HEAD probe and its album entry
PhotoProbe(u, outcomes) ==
    /\ th[u].pc = "photo_probe"
    /\ \E o \in outcomes :
          LET f == th[u]
              photos == Photos(f.media)
              url == photos[f.i].url
              g == Logged(f, Call("head", o, OrigQuality(url)))
              entry == InputMediaPhoto(IF o = "ok" THEN OrigQuality(url)
                                                   ELSE url,
                                       f.tweet_text, f.i)
          IN  Set(u, IF o \in {"ok", "HTTPError"}
                     THEN [g EXCEPT !.photo_group = Append(@, entry),
                                    !.i = IF f.i < Len(photos) THEN f.i + 1
                                                               ELSE f.i,
                                    !.pc = IF f.i < Len(photos)
                                           THEN "photo_probe" ELSE "photo_send"]
                     ELSE Caught(g, o, <<>>))
    /\ UNCHANGED Shared

\* line 90
PhotoSend(u, outcomes) ==
    /\ th[u].pc = "photo_send"
    /\ \E o \in outcomes :
          Set(u, IF o = "ok"
                 THEN [Logged(th[u], Call("media_group", "", th[u].photo_group))
                          EXCEPT !.pc = "media_read", !.delivered = TRUE]
                 ELSE Caught(th[u], o, <<>>))
    /\ UNCHANGED Shared

(***************************************************************************)
(* reply_gifs (lines 94-101).                                              *)
(***************************************************************************)
Animation(url, text) == [url |-> url, caption |-> <<Caption(text)>>]

\* line 99
GifSend(u, outcomes) ==
    /\ th[u].pc = "gif_send"
    /\ \E o \in outcomes :
          LET f == th[u]
              url == Gifs(f.media)[f.i].url
          IN  Set(u, IF o = "ok"
                     THEN [Logged(f, Call("animation", "",
                                          Animation(url, f.tweet_text)))
                              EXCEPT !.pc = "media_read", !.delivered = TRUE]
                     ELSE Caught(f, o, <<>>))
    /\ UNCHANGED Shared

(***************************************************************************)
(* stats['media_downloaded'] += n (lines 92, 101, 139).                    *)
(***************************************************************************)
\* (variant: the album counts as one)
Amount_One(f) == 1

\* what the statement adds: len(photo_group) at line 92, 1 at 101 and 139
Amount(f) == IF f.site = "photos" THEN Len(f.photo_group) ELSE 1

\* what follows the statement: the end of reply_photos, or the next round
\* of the loop of reply_gifs or reply_videos
AfterCount(f) ==
    IF f.site = "photos" THEN Dispatch(f)
    ELSE LET bucket == IF f.site = "gifs" THEN Gifs(f.media)
                                          ELSE Videos(f.media)
         IN  IF f.i < Len(bucket)
             THEN [f EXCEPT !.i = @ + 1,
                            !.pc = IF f.site = "gifs" THEN "gif_send"
                                                      ELSE "video_probe"]
             ELSE Return(f)

\* the load of stats['media_downloaded']
MediaRead(u) ==
    /\ th[u].pc = "media_read"
    /\ Set(u, [th[u] EXCEPT !.pc = "media_write", !.ref = bot_data,
                            !.tmp = dicts[bot_data].media_downloaded])
    /\ UNCHANGED Shared

\* the store
MediaWrite(u) ==
    /\ th[u].pc = "media_write"
    /\ dicts' = [dicts EXCEPT ![th[u].ref].media_downloaded =
                                   th[u].tmp + Amount(th[u])]
    /\ Set(u, AfterCount([th[u] EXCEPT !.ref = 0, !.tmp = 0,
                                       !.added = @ + Amount(th[u])]))
    /\ UNCHANGED <<bot_data, resets, poll>>

(***************************************************************************)
(* reply_videos (lines 103-139).                                           *)
(***************************************************************************)
\* (variant: the videos are taken from the end of the list)
VideoUrl_Reversed(f) ==
    Videos(f.media)[Len(Videos(f.media)) + 1 - f.i].url

\* lines 105-106
VideoUrl(f) == Videos(f.media)[f.i].url
VideoByUrl(url, text) == [url |-> url, caption |-> <<Caption(text)>>]
VideoByFile(url, text) ==
    [url |-> url, caption |-> <<Caption(text)>>, supports_streaming |-> TRUE]

\* line 139 is next: the try statement of this video is over
VideoDone(f) ==
    [f EXCEPT !.pc = "media_read", !.video_size = 0, !.notice = 0,
              !.tf = "closed"]

\* lines 108-110, 113, 130: the streaming GET, the size and the tier
VideoProbe(u, probes) ==
    /\ th[u].pc = "video_probe"
    /\ \E o \in probes :
          LET f == Logged(th[u], Call("get", "", VideoUrl(th[u])))
              tier == VideoTier(o.size)
          IN  Set(u, IF o.exc # "none" THEN VideoExcept(f, o.exc)
                     ELSE [f EXCEPT !.video_size = o.size,
                                    !.pc = IF tier = "relay" THEN "video_relay"
                                           ELSE IF tier = "upload"
                                           THEN "video_notice"
                                           ELSE "video_link"])
    /\ UNCHANGED Shared

\* line 111
VideoRelay(u, outcomes) ==
    /\ th[u].pc = "video_relay"
    /\ \E o \in outcomes :
          LET f == th[u]
          IN  Set(u, IF o = "ok"
                     THEN [VideoDone(Logged(f, Call("video_url", "",
                                  VideoByUrl(VideoUrl(f), f.tweet_text))))
                              EXCEPT !.delivered = TRUE]
                     ELSE VideoExcept(f, o))
    /\ UNCHANGED Shared

\* lines 116-120: the notice; then the with block opens tf
VideoNotice(u, outcomes) ==
    /\ th[u].pc = "video_notice"
    /\ \E o \in outcomes :
          LET f == th[u]
          IN  Set(u, IF o = "ok"
                     THEN [Logged(f, Call("text", "notice", NoticeText))
                              EXCEPT !.pc = "video_stream",
                                     !.notice = Len(f.calls) + 1,
                                     !.tf = "open"]
                     ELSE VideoExcept(f, o))
    /\ UNCHANGED Shared

\* lines 123-126: the body is written to tf, tf is rewound
VideoStream(u, errors) ==
    /\ th[u].pc = "video_stream"
    /\ \E o \in {"ok"} \cup errors :
          LET f == th[u]
          IN  Set(u, IF o = "ok"
                     THEN [Logged(f, Call("download", "", VideoUrl(f)))
                              EXCEPT !.pc = "video_upload", !.tf = "full"]
                     ELSE VideoExcept(f, o))
    /\ UNCHANGED Shared

\* line 127; the with block ends and closes tf
VideoUpload(u, outcomes) ==
    /\ th[u].pc = "video_upload"
    /\ \E o \in outcomes :
          LET f == th[u]
          IN  Set(u, IF o = "ok"
                     THEN [Logged(f, Call("video_file", "",
                                  VideoByFile(VideoUrl(f), f.tweet_text)))
                              EXCEPT !.pc = "video_delete", !.tf = "closed",
                                     !.delivered = TRUE]
                     ELSE VideoExcept(f, o))
    /\ UNCHANGED Shared

\* line 129
VideoDelete(u, outcomes) ==
    /\ th[u].pc = "video_delete"
    /\ \E o \in outcomes :
          LET f == th[u]
          IN  Set(u, IF o = "ok"
                     THEN VideoDone(Logged(f, Call("delete", "", f.notice)))
                     ELSE VideoExcept(f, o))
    /\ UNCHANGED Shared

\* lines 132-133
VideoLink(u, outcomes) ==
    /\ th[u].pc = "video_link"
    /\ \E o \in outcomes :
          LET f == th[u]
          IN  Set(u, IF o = "ok"
                     THEN VideoDone(Logged(f, Call("text", "too_large",
                                  TooLargeText(VideoUrl(f), f.tweet_text))))
                     ELSE VideoExcept(f, o))
    /\ UNCHANGED Shared

\* lines 134-138: the except clause; what it raises leaves reply_videos
VideoFallback(u, outcomes) ==
    /\ th[u].pc = "video_fallback"
    /\ \E o \in outcomes :
          LET f == th[u]
          IN  Set(u, IF o = "ok"
                     THEN VideoDone(Logged(f, Call("text", "fallback",
                                  FallbackText(VideoUrl(f), f.tweet_text))))
                     ELSE Caught(f, o, <<>>))
    /\ UNCHANGED Shared

(***************************************************************************)
(* reset_stats_command (lines 205-210), run by the dispatcher thread.      *)
(***************************************************************************)
ResetStats ==
    /\ resets < MaxResets
    /\ dicts' = Append(dicts, NewStats)
    /\ bot_data' = Len(dicts) + 1
    /\ resets' = resets + 1
    /\ UNCHANGED <<th, poll>>

(***************************************************************************)
(* error_handler (lines 146-181), called by the dispatcher with the update *)
(* and the exception that left a handler, and by the polling loop with no  *)
(* update (None) and the error of its request.                             *)
(***************************************************************************)
\* (variant: no error class is swallowed)
Swallowed_None == {}

\* lines 148-152
Swallowed == {"Unauthorized", "Conflict"}

\* lines 148-155: where error_handler goes from its entry
ErrorEntry(error, has_update) ==
    IF error \in Swallowed THEN "handled"                     \* 149, 152
    ELSE IF ~has_update THEN "handled"                        \* 155
    ELSE "eh_report"

\* line 177: the report, a document for the developer chat
ErrorReport ==
    [chat_id |-> "DEVELOPER_ID", filename |-> "error_report.txt",
     caption |-> "#error_report\nAn exception was raised in runtime\n"]

\* line 181
ErrorReplyText(error) == <<"Error\n", "telegram.error.", error, ": ">>

\* the exception that left handle_message reaches error_handler
ErrorHandler(u) ==
    /\ th[u].pc = "raised"
    /\ Set(u, [th[u] EXCEPT !.pc = ErrorEntry(th[u].exc, TRUE)])
    /\ UNCHANGED Shared

\* line 177; what it raises leaves error_handler
SendReport(u, outcomes) ==
    /\ th[u].pc = "eh_report"
    /\ \E o \in outcomes :
          Set(u, IF o = "ok"
                 THEN [Logged(th[u], Call("document", "", ErrorReport))
                          EXCEPT !.pc = "eh_reply"]
                 ELSE [th[u] EXCEPT !.pc = "eh_raised"])
    /\ UNCHANGED Shared

\* lines 179-181
ErrorReply(u, outcomes) ==
    /\ th[u].pc = "eh_reply"
    /\ \E o \in outcomes :
          Set(u, IF o = "ok"
                 THEN [Logged(th[u], Call("text", "handler",
                                          ErrorReplyText(th[u].exc)))
                          EXCEPT !.pc = "handled"]
                 ELSE [th[u] EXCEPT !.pc = "eh_raised"])
    /\ UNCHANGED Shared

\* what a request of the polling loop (getUpdates) raises
PollErrors == {"Conflict", "Unauthorized", "NetworkError"}

\* the polling loop hands the error of its request to error_handler, with
\* no update
PollError ==
    /\ poll.pc = "polling"
    /\ \E e \in PollErrors : poll' = [pc |-> "poll_raised", exc |-> e]
    /\ UNCHANGED <<th, dicts, bot_data, resets>>

\* error_handler(None, error)
PollErrorHandler ==
    /\ poll.pc = "poll_raised"
    /\ poll' = [poll EXCEPT !.pc = ErrorEntry(poll.exc, FALSE)]
    /\ UNCHANGED <<th, dicts, bot_data, resets>>

\* the loop polls again
PollAgain ==
    /\ poll.pc = "handled"
    /\ poll' = [poll EXCEPT !.pc = "polling"]
    /\ UNCHANGED <<th, dicts, bot_data, resets>>

(***************************************************************************)
(* Specifications.                                                         *)
(*   Spec      one message unit against every response and failure of the  *)
(*             network and of the sink                                     *)
(*   SpecConc  NUnits concurrent units and /resetstats, the network and    *)
(*             the sink answering without failure                          *)
(*   SpecLive  one message unit that is always given its next step, every  *)
(*             request answered (by a response or by an exception) and     *)
(*             every call of the sink accepted                             *)
(*   SpecErr   the error path of the dispatcher: one message unit whose    *)
(*             sink calls may fail, with error_handler, and the polling    *)
(*             loop with its errors                                        *)
(***************************************************************************)
Step(u) ==
    \/ StatsCheck(u)
    \/ StatsInit(u)
    \/ CountRead(u)
    \/ CountWrite(u)
    \/ Extract(u, Texts)
    \/ NoLinkReply(u, SinkOutcomes)
    \/ Scrape(u, Responses)
    \/ NoMediaReply(u, SinkOutcomes)
    \/ ExceptApi(u, SinkOutcomes)
    \/ ExceptAny(u, SinkOutcomes)
    \/ NextId(u)
    \/ Summary(u, SinkOutcomes)
    \/ ReplyMedia(u)
    \/ ReplyMediaReturn(u)
    \/ PhotoProbe(u, PhotoProbeOutcomes)
    \/ PhotoSend(u, SinkOutcomes)
    \/ GifSend(u, SinkOutcomes)
    \/ MediaRead(u)
    \/ MediaWrite(u)
    \/ VideoProbe(u, Probes)
    \/ VideoRelay(u, SinkOutcomes)
    \/ VideoNotice(u, SinkOutcomes)
    \/ VideoStream(u, StreamErrors)
    \/ VideoUpload(u, SinkOutcomes)
    \/ VideoDelete(u, SinkOutcomes)
    \/ VideoLink(u, SinkOutcomes)
    \/ VideoFallback(u, SinkOutcomes)

Next == Step(1)

Spec == Init /\ [][Next]_vars

\* a message with one status link, answered with one item the sink accepts
CalmTexts == {<<StatusLink(1)>>}
CalmResponses ==
    {r \in Responses : /\ r.json /\ r.has_media /\ Len(r.media) = 1
                       /\ r.media[1].type # "other"
                       /\ r.text = CAPTION_LIMIT}
CalmProbes == {[exc |-> "none", size |-> MAX_FILESIZE_DOWNLOAD]}

StepConc(u) ==
    \/ StatsCheck(u)
    \/ StatsInit(u)
    \/ CountRead(u)
    \/ CountWrite(u)
    \/ Extract(u, CalmTexts)
    \/ Scrape(u, CalmResponses)
    \/ NextId(u)
    \/ Summary(u, {"ok"})
    \/ ReplyMedia(u)
    \/ ReplyMediaReturn(u)
    \/ PhotoProbe(u, {"ok"})
    \/ PhotoSend(u, {"ok"})
    \/ GifSend(u, {"ok"})
    \/ MediaRead(u)
    \/ MediaWrite(u)
    \/ VideoProbe(u, CalmProbes)
    \/ VideoRelay(u, {"ok"})

NextConc == ResetStats \/ \E u \in Units : StepConc(u)

SpecConc == Init /\ [][NextConc]_vars

StepLive(u) ==
    \/ StatsCheck(u)
    \/ StatsInit(u)
    \/ CountRead(u)
    \/ CountWrite(u)
    \/ Extract(u, Texts)
    \/ NoLinkReply(u, {"ok"})
    \/ Scrape(u, Responses)
    \/ NoMediaReply(u, {"ok"})
    \/ ExceptApi(u, {"ok"})
    \/ ExceptAny(u, {"ok"})
    \/ NextId(u)
    \/ Summary(u, {"ok"})
    \/ ReplyMedia(u)
    \/ ReplyMediaReturn(u)
    \/ PhotoProbe(u, PhotoProbeOutcomes)
    \/ PhotoSend(u, {"ok"})
    \/ GifSend(u, {"ok"})
    \/ MediaRead(u)
    \/ MediaWrite(u)
    \/ VideoProbe(u, Probes)
    \/ VideoRelay(u, {"ok"})
    \/ VideoNotice(u, {"ok"})
    \/ VideoStream(u, StreamErrors)
    \/ VideoUpload(u, {"ok"})
    \/ VideoDelete(u, {"ok"})
    \/ VideoLink(u, {"ok"})
    \/ VideoFallback(u, {"ok"})

NextLive == StepLive(1)

SpecLive == Init /\ [][NextLive]_vars /\ WF_vars(NextLive)

StepErr(u) ==
    \/ StatsCheck(u)
    \/ StatsInit(u)
    \/ CountRead(u)
    \/ CountWrite(u)
    \/ Extract(u, CalmTexts)
    \/ Scrape(u, CalmResponses)
    \/ ExceptAny(u, SinkOutcomes)
    \/ NextId(u)
    \/ Summary(u, SinkOutcomes)
    \/ ReplyMedia(u)
    \/ ReplyMediaReturn(u)
    \/ PhotoProbe(u, {"ok"})
    \/ PhotoSend(u, SinkOutcomes)
    \/ GifSend(u, SinkOutcomes)
    \/ MediaRead(u)
    \/ MediaWrite(u)
    \/ VideoProbe(u, CalmProbes)
    \/ VideoRelay(u, SinkOutcomes)
    \/ VideoFallback(u, SinkOutcomes)
    \/ ErrorHandler(u)
    \/ SendReport(u, SinkOutcomes)
    \/ ErrorReply(u, SinkOutcomes)

NextErr == PollError \/ PollErrorHandler \/ PollAgain \/ StepErr(1)

SpecErr == Init /\ [][NextErr]_vars

(***************************************************************************)
(* Properties.                                                             *)
(***************************************************************************)
Frames == {th[u] : u \in Units}
CallsWhere(f, P(_)) == {k \in 1..Len(f.calls) : P(f.calls[k])}
TextCalls(f, what) ==
    CallsWhere(f, LAMBDA c : c.op = "text" /\ c.what = what)
MediaCalls(f) == CallsWhere(f, LAMBDA c : c.op \in MediaOps)
Replies(f) == SelectSeq(f.calls, LAMBDA c : c.op = "text")

SupportedTypes == {"image", "gif", "video"}
VideoTryPcs == {"video_probe", "video_relay", "video_notice", "video_stream",
                "video_upload", "video_delete", "video_link"}
VideoPcs == VideoTryPcs \cup {"video_fallback"}

\* C1 (as claimed): when reply_media returns, it returns true if and only
\* if at least one media item of the post was delivered to the sink as media.
C1_TrueIffDelivered ==
    \A f \in Frames :
        f.pc = "media_return" => (f.ret = "true" <=> MediaCalls(f) # {})

\* C1 (amended): when reply_media returns, it returns true if and only if
\* the post has an item of a supported type (image, gif, video), whether or
\* not anything was delivered as media.
C1_TrueIffSupported ==
    \A f \in Frames :
        f.pc = "media_return" =>
            (f.ret = "true" <=>
                \E k \in 1..Len(f.media) : f.media[k].type \in SupportedTypes)

\* C1 witness: reply_media returns true although nothing was sent as media
C1_Witness ==
    \E f \in Frames :
        f.pc = "media_return" /\ f.ret = "true" /\ MediaCalls(f) = {}

\* C2 (as claimed): at the end of a message with ids, the summary was sent
\* exactly when some post had non-empty media and nothing was delivered.
C2_SummaryIffMediaUndelivered ==
    \A f \in Frames :
        (f.pc = "done" /\ f.tweet_ids # <<>>) =>
            (TextCalls(f, "summary") # {} <=> (f.had_media /\ ~f.delivered))

\* C2 (amended): the summary is sent at most once, as the only call after
\* the loop and only after the last id; at the end of a message with ids it was sent
\* exactly when some scrape returned (found_tweets) and reply_media returned
\* true for no post (found_media is false), also when no post had media.
C2_SummaryIffFoundNothing ==
    \A f \in Frames :
        /\ Cardinality(TextCalls(f, "summary")) <= 1
        /\ TextCalls(f, "summary") # {} =>
              /\ f.pc = "done"
              /\ f.idx = Len(f.tweet_ids)
              /\ Len(f.calls) = 1
        /\ (f.pc = "done" /\ f.tweet_ids # <<>>) =>
              (TextCalls(f, "summary") # {}
                  <=> (f.found_tweets /\ ~f.found_media))
        /\ f.found_media => (f.had_media /\ f.found_tweets)
        /\ f.had_media => f.found_tweets

\* C2 witness: the summary was sent although no post had any media
C2_Witness ==
    \E f \in Frames :
        f.pc = "done" /\ TextCalls(f, "summary") # {} /\ ~f.had_media

\* C3 (as claimed): whatever fails while one video is handled, control stays
\* in reply_videos: the video ends in its delivery or in the fallback, and
\* the next video follows.
C3_VideoFailureStaysInBucket ==
    [][\A u \in Units :
          th[u].pc \in VideoTryPcs =>
              th'[u].pc \in VideoTryPcs \cup {"video_fallback", "media_read"}]_vars

\* C4 (as claimed): a failure while the album or an animation is sent does
\* not end the dispatch of the post: the send of reply_photos or reply_gifs
\* never leaves reply_media by an exception.
C4_BucketFailureStaysInPost ==
    [][\A u \in Units :
          th[u].pc \in {"photo_send", "gif_send"} =>
              th'[u].pc \notin {"except_api", "except_any", "raised"}]_vars

RECURSIVE SumAdded(_)
SumAdded(n) == IF n = 0 THEN 0 ELSE th[n].added + SumAdded(n - 1)

\* C5 (as claimed): when all NUnits units are done and no reset ran,
\* messages_handled is NUnits and media_downloaded is the sum of what the
\* units added.
C5_NoLostUpdate ==
    ((\A u \in Units : th[u].pc = "done") /\ resets = 0) =>
        /\ bot_data # 0
        /\ dicts[bot_data].messages_handled = NUnits
        /\ dicts[bot_data].media_downloaded = SumAdded(NUnits)

ScrapeCalls(f) == SelectSeq(f.calls, LAMBDA c : c.op = "scrape")
ErrorReplies(f) ==
    CallsWhere(f, LAMBDA c : c.op = "text" /\ c.what \in {"api_error", "error"})

C6_State ==
    \A f \in Frames :
        /\ f.pc = "scrape" => f.calls = <<>>
        /\ (f.idx >= 1 /\ f.pc \notin {"scrape", "summary", "done", "raised"}) =>
              ScrapeCalls(f) = <<Call("scrape", "", f.tweet_ids[f.idx])>>
        /\ f.pc = "next" =>
              \/ /\ Cardinality(ErrorReplies(f)) = 1
                 /\ f.ret = "none"
                 /\ TextCalls(f, "no_media") = {}
              \/ /\ ErrorReplies(f) = {}
                 /\ (f.ret # "none" \/ TextCalls(f, "no_media") # {})
        /\ (f.pc \in {"summary", "done"} /\ f.tweet_ids # <<>>) =>
              f.idx = Len(f.tweet_ids)
        /\ f.pc = "raised" => f.exc \in SinkErrors

C6_Order ==
    \A u \in Units :
        th'[u].idx # th[u].idx =>
            /\ th'[u].idx = th[u].idx + 1
            /\ th'[u].pc = "scrape"
            /\ th[u].pc \in {"extract", "next"}

UploadPcs == {"video_notice", "video_stream", "video_upload", "video_delete"}
TierPcs == {"video_relay", "video_link"} \cup UploadPcs

\* C7: a video whose size s was measured is in exactly one tier: the direct
\* relay iff s <= DOWNLOAD_LIMIT, the buffered upload iff DOWNLOAD_LIMIT < s
\* <= UPLOAD_LIMIT, the link-only text iff s > UPLOAD_LIMIT.
C7_ExactlyOneTier ==
    \A f \in Frames :
        f.pc \in TierPcs =>
            /\ f.pc = "video_relay" <=> f.video_size <= MAX_FILESIZE_DOWNLOAD
            /\ f.pc \in UploadPcs <=>
                  (/\ MAX_FILESIZE_DOWNLOAD < f.video_size
                   /\ f.video_size <= MAX_FILESIZE_UPLOAD)
            /\ f.pc = "video_link" <=> f.video_size > MAX_FILESIZE_UPLOAD

\* C7 witness: a video of exactly UPLOAD_LIMIT bytes was uploaded from the
\* buffer
C7_Witness ==
    \E f \in Frames :
        /\ f.pc = "video_delete"
        /\ f.video_size = MAX_FILESIZE_UPLOAD
        /\ CallsWhere(f, LAMBDA c : c.op = "video_file") # {}

VideoCallOps == {"get", "download", "video_url", "video_file", "delete"}
VideoTexts == {"notice", "too_large", "fallback"}
VideoCalls(f) ==
    CallsWhere(f, LAMBDA c : \/ c.op \in VideoCallOps
                             \/ (c.op = "text" /\ c.what \in VideoTexts))

\* C8: while the post at hand has a gif, no video of it is dispatched: no
\* size probe, no video send, no video text; reply_videos runs only for a
\* post without gifs.
C8_NoVideoWithGif ==
    \A f \in Frames :
        /\ Gifs(f.media) # <<>> =>
              (f.pc \notin VideoPcs /\ f.site # "videos" /\ VideoCalls(f) = {})
        /\ (f.pc \in VideoPcs \/ VideoCalls(f) # {}) =>
              (Gifs(f.media) = <<>> /\ Videos(f.media) # <<>>)

\* C8 witness: reply_media returns for a post with a gif and a video
C8_Witness ==
    \E f \in Frames :
        /\ f.pc = "media_return"
        /\ Gifs(f.media) # <<>> /\ Videos(f.media) # <<>>
        /\ CallsWhere(f, LAMBDA c : c.op = "animation") # {}

JsonWithoutMedia(r) == r.net = "ok" /\ r.ok /\ r.json /\ ~r.has_media

\* C9 (as claimed): a 2xx JSON answer without media_extended is an empty
\* media list: no exception is handled for it and no error reply is sent.
C9_MissingMediaIsEmpty ==
    \A f \in Frames :
        JsonWithoutMedia(f.response) =>
            /\ f.pc \notin {"except_api", "except_any", "raised"}
            /\ ErrorReplies(f) = {}

ApiReported(r) == r.net = "ok" /\ r.ok /\ ~r.json /\ r.og # <<>>
Transport(r) == r.net = "ok" /\ ~r.ok
Malformed(r) == r.net = "ok" /\ r.ok /\ ~r.json /\ r.og = <<>>

Decoded(m) ==
    [k \in 1..Len(m) |->
        CASE m[k] = "&amp;" -> "&" [] m[k] = "&lt;" -> "<" [] OTHER -> m[k]]

\* C10: an HTML answer with an og:description message M is handled by the
\* APIException clause and answered with exactly 'Error occurred when
\* scraping tweet <id>\nAPI returned error: M', M decoded; a non-2xx status
\* or a non-JSON body without the tag is handled by the generic clause and
\* answered with exactly 'Error handling tweet <id>'.
C10_ScrapeFailureReplies ==
    \A f \in Frames :
        LET r == f.response
            id == f.tweet_ids[f.idx]
        IN  /\ ApiReported(r) => f.pc \in {"except_api", "next"}
            /\ (Transport(r) \/ Malformed(r)) =>
                  f.pc \in {"except_any", "next"}
            /\ f.pc = "except_api" => ApiReported(r)
            /\ (f.pc = "next" /\ ApiReported(r)) =>
                  /\ Len(Replies(f)) = 1
                  /\ Replies(f)[1].what = "api_error"
                  /\ Replies(f)[1].arg =
                        <<"Error occurred when scraping tweet ", id, "\n",
                          "API returned error: ">> \o Decoded(r.og[1])
            /\ (f.pc = "next" /\ (Transport(r) \/ Malformed(r))) =>
                  /\ Len(Replies(f)) = 1
                  /\ Replies(f)[1].what = "error"
                  /\ Replies(f)[1].arg = <<"Error handling tweet ", id>>

\* C10 witness: the API-reported reply was sent with a decoded entity
C10_Witness ==
    \E f \in Frames :
        /\ f.pc = "next"
        /\ ApiReported(f.response)
        /\ f.response.og[1][1] = "&amp;"
        /\ TextCalls(f, "api_error") # {}

OpCalls(f, op) == CallsWhere(f, LAMBDA c : c.op = op)

\* C11 (as claimed): in the buffered-upload tier the events of one video come
\* in the order notice, body streamed into the buffer, buffer uploaded as a
\* streaming-capable video, notice deleted; and once the handling of the
\* video is outside that tier (it ended, in any way), every notice that was
\* sent has been deleted.
C11_NoticeOrderAndDeleted ==
    \A f \in Frames :
        /\ \A k \in OpCalls(f, "download") :
              /\ k - 1 \in TextCalls(f, "notice")
              /\ f.calls[k].arg = f.calls[k - 2].arg
        /\ \A k \in OpCalls(f, "video_file") :
              /\ k - 1 \in OpCalls(f, "download")
              /\ f.calls[k].arg.supports_streaming
        /\ \A k \in OpCalls(f, "delete") :
              /\ k - 1 \in OpCalls(f, "video_file")
              /\ f.calls[k].arg = k - 3
        /\ f.pc \notin UploadPcs =>
              Cardinality(TextCalls(f, "notice"))
                  = Cardinality(OpCalls(f, "delete"))

\* C12: the scratch buffer tf is open only between the notice and the end of
\* the upload of one video; it is closed on every way out of that stretch,
\* also when the streaming or the upload raises: no buffer is open when a
\* fallback is sent, when the next video is probed, when the next post is
\* scraped, in an except clause of handle_message or after it.
C12_BufferScopedToVideo ==
    \A f \in Frames :
        /\ f.tf # "closed" => f.pc \in {"video_stream", "video_upload"}
        /\ f.pc = "video_stream" => f.tf = "open"
        /\ f.pc = "video_upload" => f.tf = "full"

\* C12 witness: the upload from the buffer was rejected (the body had been
\* streamed into it) and the fallback is next, the buffer closed
C12_Witness ==
    \E f \in Frames :
        /\ f.pc = "video_fallback"
        /\ f.calls[Len(f.calls)].op = "download"
        /\ f.tf = "closed"

HeadCalls(f) == SelectSeq(f.calls, LAMBDA c : c.op = "head")
PhotoPcs == {"photo_probe", "photo_send"}

\* the album entry the claim gives the k-th image after a probe that ended
\* with outcome o
ClaimedEntry(f, k, o) ==
    LET url == Photos(f.media)[k].url
    IN  [media |-> IF o = "ok" THEN OrigQuality(url) ELSE url,
         caption |-> IF k = 1
                     THEN <<IF f.tweet_text > 1024 THEN 1024 ELSE f.tweet_text>>
                     ELSE <<>>]

C13_State ==
    \A f \in Frames :
        /\ f.pc \in PhotoPcs =>
              /\ Len(f.photo_group) = Len(HeadCalls(f))
              /\ \A k \in 1..Len(f.photo_group) :
                    f.photo_group[k] = ClaimedEntry(f, k, HeadCalls(f)[k].what)
        /\ f.pc = "photo_send" => Len(f.photo_group) = Len(Photos(f.media))
        /\ Cardinality(OpCalls(f, "media_group")) <= 1
        /\ \A c \in OpCalls(f, "media_group") :
              /\ Len(f.calls[c].arg) = Len(Photos(f.media))
              /\ \A k \in 1..Len(f.calls[c].arg) :
                    f.calls[c].arg[k] = ClaimedEntry(f, k, HeadCalls(f)[k].what)

C13_Step ==
    \A u \in Units :
        th[u].pc = "photo_probe" =>
            /\ th'[u].pc \in PhotoPcs
            /\ Len(th'[u].photo_group) = Len(th[u].photo_group) + 1

\* C13 (as claimed): reply_photos sends one album with one entry per image
\* in input order; the entry of an image is the 'orig' URL when its HEAD
\* probe succeeded and the item's own URL when the probe failed in any way,
\* by an error status or by a network failure: every probe, however it
\* ends, adds an entry; only the first entry has the caption, cut to 1024.
C13_AlbumEntryPerImage == []C13_State /\ [][C13_Step]_vars

\* the places of the items of type t, and the item at the j-th of them
PlacesOf(media, t) == {k \in 1..Len(media) : media[k].type = t}
NthOf(media, t, j) ==
    media[CHOOSE k \in PlacesOf(media, t) :
              Cardinality({m \in PlacesOf(media, t) : m <= k}) = j]
IsBucketOf(b, media, t) ==
    /\ Len(b) = Cardinality(PlacesOf(media, t))
    /\ \A j \in 1..Len(b) : b[j] = NthOf(media, t, j)

\* C14 (as claimed): the buckets are a total partition of the media list:
\* every item is in exactly one of the three buckets, each bucket keeps the
\* input order, and an empty list gives three empty buckets.
C14_TotalPartition ==
    \A f \in Frames :
        /\ IsBucketOf(Photos(f.media), f.media, "image")
        /\ IsBucketOf(Gifs(f.media), f.media, "gif")
        /\ IsBucketOf(Videos(f.media), f.media, "video")
        /\ Len(Photos(f.media)) + Len(Gifs(f.media)) + Len(Videos(f.media))
              = Len(f.media)

\* C14 (amended): every item whose type is image, gif or video is in exactly
\* one bucket, the one of its type; an item of any other type is in no
\* bucket; each bucket keeps the input order; an empty list gives three
\* empty buckets.
C14_PartitionOfSupported ==
    \A f \in Frames :
        /\ IsBucketOf(Photos(f.media), f.media, "image")
        /\ IsBucketOf(Gifs(f.media), f.media, "gif")
        /\ IsBucketOf(Videos(f.media), f.media, "video")
        /\ Len(Photos(f.media)) + Len(Gifs(f.media)) + Len(Videos(f.media))
              = Cardinality({k \in 1..Len(f.media) :
                                f.media[k].type \in SupportedTypes})
        /\ f.media = <<>> =>
              (Photos(f.media) = <<>> /\ Gifs(f.media) = <<>>
                  /\ Videos(f.media) = <<>>)

\* C14 witness: reply_media built the buckets of a list with a video and an
\* item of an unsupported type, and the video bucket is being handled
C14_Witness ==
    \E f \in Frames :
        /\ f.pc = "video_probe"
        /\ Len(f.media) = 2
        /\ f.media[1].type = "other"
        /\ Videos(f.media) = <<f.media[2]>>

\* where id n first appears in what the status pattern is run on: the text,
\* then the resolved URLs in the order of their short links
AppearsAt(f, n) ==
    {k \in 1..Len(f.text) : f.text[k] = StatusLink(n)}
    \cup {Len(f.text) + j : j \in {i \in DOMAIN f.links :
                                      f.links[i] = <<StatusLink(n)>>}}
IdsSeen(f) == {n \in TweetIds : AppearsAt(f, n) # {}}
FirstAt(f, n) == CHOOSE k \in AppearsAt(f, n) : \A m \in AppearsAt(f, n) : k <= m
Extracted(f) == f.pc = "no_link" \/ (f.pc = "scrape" /\ f.idx = 1)

\* C15: extract_tweet_ids returns the ids of the status links of the text
\* and of the resolved short links, without duplicates and in the order of
\* their first appearance; it returns none (the 'no link' reply follows)
\* exactly when there is no such id; a short link whose request fails is
\* skipped: the call still returns, with every id of the original text.
C15_IdsUniqueInOrder ==
    \A f \in Frames :
        /\ f.pc = "extract" => f.tweet_ids = <<>>
        /\ Extracted(f) =>
              /\ f.text # <<>>
              /\ f.pc = "no_link" <=> IdsSeen(f) = {}
              /\ Range(f.tweet_ids) = IdsSeen(f)
              /\ \A i, j \in 1..Len(f.tweet_ids) :
                    i < j => FirstAt(f, f.tweet_ids[i]) < FirstAt(f, f.tweet_ids[j])
              /\ \A k \in 1..Len(f.text) :
                    f.text[k].kind = "status" => f.text[k].n \in Range(f.tweet_ids)

\* C15 witness: a text with a status link and a short link whose resolution
\* failed; the id of the status link was extracted
C15_Witness ==
    \E f \in Frames :
        /\ f.pc = "scrape" /\ f.idx = 1
        /\ f.text = <<ShortLink, StatusLink(2)>>
        /\ f.links[1] = <<>>
        /\ f.tweet_ids = <<2>>

\* the first min(len, 1024) characters of a text of length n
Cut(n) == IF n > 1024 THEN 1024 ELSE n

\* the captions and embedded post texts of one call of the sink
TextsIn(c) ==
    CASE c.op = "media_group" ->
            {c.arg[k].caption : k \in 1..Len(c.arg)} \ {<<>>}
      [] c.op \in {"animation", "video_url", "video_file"} -> {c.arg.caption}
      [] c.op = "text" /\ c.what \in {"no_media", "too_large", "fallback"} ->
            {<<c.arg[Len(c.arg)]>>}
      [] OTHER -> {}

\* C16: every caption given to the sink (first album entry, animation, video
\* by URL, video from the buffer) and every post text in a 'no media',
\* too-large or fallback reply is the post text cut to its first 1024
\* characters: 1024 long for a longer text, the whole text otherwise.
C16_CaptionsCut ==
    \A f \in Frames :
        \A k \in 1..Len(f.calls) :
            /\ TextsIn(f.calls[k]) \subseteq {<<Cut(f.tweet_text)>>}
            /\ f.calls[k].op \in MediaOps \/ (f.calls[k].op = "text" /\
                  f.calls[k].what \in {"no_media", "too_large", "fallback"})
                  => TextsIn(f.calls[k]) # {}

\* C16 witness: a text of 1025 characters went out as a caption of 1024 with
\* the video uploaded from the buffer
C16_Witness ==
    \E f \in Frames :
        /\ f.tweet_text = 1025
        /\ \E k \in OpCalls(f, "video_file") : f.calls[k].arg.caption = <<1024>>

HandlerPcs == {"eh_report", "eh_reply", "eh_raised", "handled"}
Reported(f) ==
    /\ Len(f.calls) >= 1
    /\ f.calls[1].op = "document"
    /\ f.calls[1].arg.chat_id = "DEVELOPER_ID"
RepliedError(f) ==
    /\ Len(f.calls) = 2
    /\ f.calls[2].op = "text"
    /\ f.calls[2].arg = <<"Error\n", "telegram.error.", f.exc, ": ">>

\* C17 (as claimed): error_handler sends nothing for Unauthorized and
\* Conflict; for any other error with an update, however the handler ends,
\* it has sent one report to the developer chat and then one error reply to
\* the user.
C17_SwallowOrReportAndReply ==
    /\ poll.pc \in {"polling", "poll_raised", "handled"}
    /\ \A f \in Frames :
          /\ f.pc \in HandlerPcs =>
                (f.exc \in {"Unauthorized", "Conflict"}
                    <=> (f.pc = "handled" /\ f.calls = <<>>))
          /\ (f.pc \in {"handled", "eh_raised"}
                /\ f.exc \notin {"Unauthorized", "Conflict"}) =>
                (Reported(f) /\ RepliedError(f))

\* C17 (amended): error_handler sends nothing for Unauthorized and Conflict
\* (and nothing when there is no update); for any other error with an
\* update it first sends the report to the developer chat and, only when
\* that send has returned, the error reply to the user: when it returns it
\* has sent exactly the two, in this order; when one of its sends raises,
\* the handler ends there, with no reply to the user if it was the report.
C17_ReportThenReplyIfAccepted ==
    /\ poll.pc \in {"polling", "poll_raised", "handled"}
    /\ \A f \in Frames :
          /\ f.pc \in HandlerPcs =>
                (f.exc \in {"Unauthorized", "Conflict"}
                    <=> (f.pc = "handled" /\ f.calls = <<>>))
          /\ f.pc = "eh_report" => f.calls = <<>>
          /\ f.pc = "eh_reply" => (Reported(f) /\ Len(f.calls) = 1)
          /\ (f.pc = "handled" /\ f.exc \notin {"Unauthorized", "Conflict"}) =>
                (Reported(f) /\ RepliedError(f))
          /\ f.pc = "eh_raised" =>
                (f.calls = <<>> \/ (Reported(f) /\ Len(f.calls) = 1))

\* C17 witness: a BadRequest left handle_message; the report and then the
\* reply were sent, and the polling loop had a Conflict swallowed
C17_Witness ==
    /\ poll = [pc |-> "handled", exc |-> "Conflict"]
    /\ \E f \in Frames :
          /\ f.pc = "handled" /\ f.exc = "BadRequest"
          /\ Reported(f) /\ RepliedError(f)

\* the calls of one post, by bucket
AlbumCalls(f) == OpCalls(f, "head") \cup OpCalls(f, "media_group")
GetCalls(f) == SelectSeq(f.calls, LAMBDA c : c.op = "get")
AnimationCalls(f) == SelectSeq(f.calls, LAMBDA c : c.op = "animation")
VideoItemCalls(f) == VideoCalls(f) \ OpCalls(f, "get")

\* the URL a call about one video names
UrlIn(c) ==
    CASE c.op \in {"get", "download"} -> c.arg
      [] c.op \in {"video_url", "video_file"} -> c.arg.url
      [] c.op = "text" /\ c.what \in {"too_large", "fallback"} -> c.arg[2]

\* the last size probe before call k
ProbeBefore(f, k) ==
    CHOOSE g \in OpCalls(f, "get") :
        g < k /\ \A h \in OpCalls(f, "get") : h < k => h <= g

InLoop(f) == f.idx >= 1 /\ f.pc \notin {"summary", "done", "raised"}

C18_State ==
    \A f \in Frames :
        \* the calls at hand are those of the id at hand, its scrape first
        /\ (InLoop(f) /\ f.calls # <<>>) =>
              /\ f.calls[1] = Call("scrape", "", f.tweet_ids[f.idx])
              /\ OpCalls(f, "scrape") = {1}
        /\ f.pc = "scrape" => f.calls = <<>>
        \* the album comes before every animation and every video call
        /\ \A a \in AlbumCalls(f) :
              \A k \in OpCalls(f, "animation") \cup VideoCalls(f) : a < k
        /\ \A h \in OpCalls(f, "head") : \A g \in OpCalls(f, "media_group") : h < g
        \* the items of a bucket in the order of the bucket
        /\ Len(AnimationCalls(f)) <= Len(Gifs(f.media))
        /\ \A j \in 1..Len(AnimationCalls(f)) :
              AnimationCalls(f)[j].arg.url = Gifs(f.media)[j].url
        /\ Len(HeadCalls(f)) <= Len(Photos(f.media))
        /\ \A j \in 1..Len(HeadCalls(f)) :
              HeadCalls(f)[j].arg.path = Photos(f.media)[j].url.path
        /\ Len(GetCalls(f)) <= Len(Videos(f.media))
        /\ \A j \in 1..Len(GetCalls(f)) :
              GetCalls(f)[j].arg = Videos(f.media)[j].url
        \* what is done for a video comes after its probe and before the next
        /\ \A k \in VideoItemCalls(f)
                        \ (TextCalls(f, "notice") \cup OpCalls(f, "delete")) :
              /\ \E g \in OpCalls(f, "get") : g < k
              /\ UrlIn(f.calls[k]) = f.calls[ProbeBefore(f, k)].arg
        \* the summary comes after the last id
        /\ TextCalls(f, "summary") # {} =>
              (f.idx = Len(f.tweet_ids) /\ f.pc = "done")

C18_Step ==
    \A u \in Units :
        /\ th'[u].idx # th[u].idx =>
              (th[u].pc \in {"extract", "next"} /\ th'[u].calls = <<>>)
        /\ (th[u].pc \in {"photo_probe", "photo_send", "gif_send"}
              \cup VideoPcs \cup {"media_read", "media_write"}) =>
              th'[u].idx = th[u].idx

\* C18: within one unit the steps are sequential: the calls made for an id
\* begin with its scrape and are over when the loop moves on (the next
\* scrape starts with none pending); within a post the album (its probes
\* and its send) comes before every animation and every video call; the
\* items of a bucket are handled in the order of the bucket, each video's
\* calls between its probe and the next probe; the summary comes after the
\* last id.
C18_SequentialWithinUnit == []C18_State /\ [][C18_Step]_vars

\* C18 witness: for the second id of a message, a post with an image and a
\* video: the album was sent, then the video, and reply_media returns
C18_Witness ==
    \E f \in Frames :
        /\ f.idx = 2 /\ f.pc = "media_return"
        /\ OpCalls(f, "media_group") # {} /\ OpCalls(f, "video_url") # {}

\* a call that leaves a message in the chat of the user
UserMessage(c) ==
    c.op \in MediaOps \/ (c.op = "text" /\ c.what # "notice")
UserMessages(f) == CallsWhere(f, UserMessage)
SummarySent(f) == TextCalls(f, "summary") # {}
\* the loop is about to leave an id for which the user got no message
SilentId(f) == f.pc = "next" /\ UserMessages(f) = {}

C19_Response ==
    \A f \in Frames :
        /\ f.pc # "raised"
        /\ (f.pc = "done" /\ f.tweet_ids = <<>>) =>
              f.calls = <<Call("text", "no_link",
                               <<"No supported tweet link found">>)>>

C19_PerId ==
    \A f \in Frames :
        /\ f.pc = "next" =>
              (UserMessages(f) = {} <=> f.ret = "false")
        /\ f.ret = "false" =>
              /\ f.media # <<>>
              /\ \A k \in 1..Len(f.media) : f.media[k].type \notin SupportedTypes
        /\ (f.pc = "done" /\ f.tweet_ids # <<>>) =>
              (SummarySent(f) <=> (f.found_tweets /\ ~f.found_media))

BeforeCount == {"start", "stats_init", "count_read", "count_write"}
LastCall(f) == f.calls[Len(f.calls)]

\* the end of the handling of one video that line 139 follows: its relay,
\* the deletion of the notice after its upload, the too-large text, or the
\* fallback text
VideoEnd(c) ==
    \/ c.op \in {"video_url", "delete"}
    \/ (c.op = "text" /\ c.what \in {"too_large", "fallback"})

\* about the unit of Spec, the only one that writes the counters there
C20_State ==
    \A f \in {th[1]} :
        \* messages_handled: 0 until line 225, 1 from then on
        /\ (f.pc \in BeforeCount /\ bot_data # 0) =>
              dicts[bot_data].messages_handled = 0
        /\ f.pc \notin BeforeCount =>
              (bot_data # 0 /\ dicts[bot_data].messages_handled = 1)
        \* media_downloaded is what the unit added
        /\ bot_data # 0 => dicts[bot_data].media_downloaded = f.added
        \* the statement is reached right after the send it counts
        /\ f.pc \in {"media_read", "media_write"} =>
              CASE f.site = "photos" ->
                      /\ LastCall(f).op = "media_group"
                      /\ Len(LastCall(f).arg) = Len(Photos(f.media))
                [] f.site = "gifs" ->
                      /\ LastCall(f).op = "animation"
                      /\ LastCall(f).arg.url = Gifs(f.media)[f.i].url
                [] f.site = "videos" -> VideoEnd(LastCall(f))
        \* the first post: what was added when reply_media returns
        /\ (f.pc = "media_return" /\ f.idx = 1) =>
              f.added = Len(Photos(f.media))
                        + (IF Gifs(f.media) # <<>> THEN Len(Gifs(f.media))
                                                   ELSE Len(Videos(f.media)))

C20_Step ==
    \A u \in Units :
        LET f == th[u]
            g == th'[u]
        IN  /\ g.added # f.added =>
                  /\ f.pc = "media_write"
                  /\ g.added - f.added =
                        (IF f.site = "photos" THEN Len(Photos(f.media)) ELSE 1)
            /\ f.pc = "media_write" => g.added # f.added
            \* a video that ends in the try block or in the fallback is counted
            /\ (f.pc \in VideoPcs /\ Len(g.calls) = Len(f.calls) + 1
                  /\ VideoEnd(LastCall(g))) => g.pc = "media_read"
            /\ (f.pc \in {"photo_send", "gif_send"}
                  /\ Len(g.calls) = Len(f.calls) + 1) => g.pc = "media_read"
            /\ g.pc = "media_read" => Len(g.calls) = Len(f.calls) + 1
            /\ (f.pc = "count_write" /\ g.pc # f.pc) => g.pc = "extract"

\* C20: messages_handled goes from 0 to 1 once, before extract_tweet_ids
\* runs, whether or not a link is found; media_downloaded grows only by the
\* statements of lines 92, 101 and 139: by the length of the album after the
\* album was sent, by 1 after each animation that was sent, and by 1 for
\* every video whose handling ended in the try block or in the fallback
\* (relay, upload, too-large link text, fallback text).
C20_CountersFollowSends == []C20_State /\ [][C20_Step]_vars

\* C20 witness: a post with two videos, one answered with the fallback text
\* and one with the too-large link text: 2 was added
C20_Witness ==
    \E f \in Frames :
        /\ f.pc = "media_return" /\ f.idx = 1
        /\ TextCalls(f, "fallback") # {} /\ TextCalls(f, "too_large") # {}
        /\ OpCalls(f, "video_url") = {} /\ OpCalls(f, "video_file") = {}
        /\ f.added = 2
        /\ dicts[bot_data] = [messages_handled |-> 1, media_downloaded |-> 2]

====
